---------------------------- MODULE Spec2Model ----------------------------
(***************************************************************************)
(* Localhost dashboard: a registry of local services kept in services.json *)
(* and two front ends over it, the tool-call server (mcp-server.js, the    *)
(* first half of the source) and the HTTP server (the second half).        *)
(*                                                                         *)
(* Representation.  A JS string whose inside the code looks at (a path, a  *)
(* start command) is a sequence of tokens; the other strings are atomic.   *)
(* A JS object is a function from its keys to their values; the key order  *)
(* of an object is not kept (JSON.stringify writes the keys in KeyOrder).  *)
(* null is Null for a string, NoPid for a pid and NoService for a          *)
(* descriptor.  exec's callback is taken to run at the moment lsof reads   *)
(* the socket table.                                                       *)
(***************************************************************************)
EXTENDS Integers, Sequences, FiniteSets, Bags, TLC

(***************************************************************************)
(* Bounds of the model.                                                    *)
(***************************************************************************)
MaxClients == 2     \* clients, each with at most one request outstanding
MaxServices == 3    \* descriptors in services.json
MaxProcs == 2       \* live processes (listening, or spawned and not yet bound)

Clients == 1..MaxClients

(***************************************************************************)
(* Values.                                                                 *)
(***************************************************************************)
Null == "<null>"
NoPid == 0
NoService == [name |-> Null]
NoResp == [kind |-> "none"]
NoArgs == [none |-> TRUE]
HOME == "/home/dev"

Ports == {3000, 4000, 5000}
KeyOrder == <<"name", "port", "path", "startCmd", "type", "github">>

\* The directories that exist, as expanded paths.
ExistingDirs == {<<HOME, "/web">>, <<HOME, "/api">>}

(***************************************************************************)
(* JSON.  A descriptor's text is a sequence of members [k, lit]; a number  *)
(* literal [n, form] may be written plainly or with an exponent; a string  *)
(* literal is [s].  A key may occur more than once in a text.              *)
(***************************************************************************)
NumLit(n, form) == [n |-> n, form |-> form]
StrLit(s) == [s |-> s]
Member(k, lit) == [k |-> k, lit |-> lit]

LitValue(lit) == IF "n" \in DOMAIN lit THEN lit.n ELSE lit.s

\* JSON.parse of one object: the last member of a key gives its value.
LastIndexOf(text, k) ==
    CHOOSE i \in 1..Len(text) :
        /\ text[i].k = k
        /\ \A j \in (i+1)..Len(text) : text[j].k # k

JSONparse(text) ==
    [k \in {text[i].k : i \in 1..Len(text)} |-> LitValue(text[LastIndexOf(text, k)].lit)]

\* JSON.stringify of one value: a number is written plainly.  In the model
\* the port is the one field that holds a number.
LitOf(k, v) == IF k = "port" THEN NumLit(v, "plain") ELSE StrLit(v)

RECURSIVE StringifyKeys(_, _)
StringifyKeys(obj, keys) ==
    IF keys = <<>> THEN <<>>
    ELSE IF Head(keys) \in DOMAIN obj
         THEN <<Member(Head(keys), LitOf(Head(keys), obj[Head(keys)]))>> \o StringifyKeys(obj, Tail(keys))
         ELSE StringifyKeys(obj, Tail(keys))

JSONstringify(obj) == StringifyKeys(obj, KeyOrder)

ParseAll(texts) == [i \in 1..Len(texts) |-> JSONparse(texts[i])]
StringifyAll(objs) == [i \in 1..Len(objs) |-> JSONstringify(objs[i])]

(***************************************************************************)
(* The descriptors of the model, as texts.                                 *)
(***************************************************************************)
WebText ==
    << Member("name", StrLit("web")), Member("port", NumLit(3000, "plain")),
       Member("path", StrLit(<<"~", "/web">>)),
       Member("startCmd", StrLit(<<"npm", " ", "run", " ", "dev">>)),
       Member("type", StrLit("frontend")), Member("github", StrLit("gh/web")) >>

ApiText ==
    << Member("name", StrLit("api")), Member("port", NumLit(4000, "plain")),
       Member("path", StrLit(<<"~", "/api">>)),
       Member("startCmd", StrLit(<<"node", " ", "server.js">>)),
       Member("type", StrLit("backend")) >>

\* A second descriptor of port 3000, of a type the filter does not know,
\* in a directory that does not exist.
OldText ==
    << Member("name", StrLit("old")), Member("port", NumLit(3000, "plain")),
       Member("path", StrLit(<<"~", "/gone">>)),
       Member("startCmd", StrLit(<<"make", " ", "serve">>)),
       Member("type", StrLit("database")) >>

\* A request body as a client may write it: the port with an exponent, the
\* name given twice.
NewBody ==
    << Member("name", StrLit("draft")), Member("type", StrLit("api")),
       Member("port", NumLit(4000, "exp")),
       Member("path", StrLit(<<"/srv", "/jobs">>)),
       Member("startCmd", StrLit(<<"node", " ", "jobs.js">>)),
       Member("name", StrLit("jobs")) >>

Bodies == {WebText, OldText, NewBody}
InitConfigs == { <<WebText, OldText, ApiText>>, <<OldText, WebText>>, <<NewBody>>, <<>> }

\* A body that is not JSON.
Malformed == << [k |-> "name", lit |-> [bad |-> TRUE]] >>
IsJSON(text) == \A i \in 1..Len(text) : "bad" \notin DOMAIN text[i].lit

Filters == {"all", "running", "stopped", "frontend", "backend", "api", "database", "worker", ""}
TypeTags == {"frontend", "backend", "api"}

(***************************************************************************)
(* State.                                                                  *)
(***************************************************************************)
VARIABLES
    configFile,         \* services.json: [state, services], services a sequence of texts
    listeners,          \* the OS: port -> the pids lsof reports for it, in its order
    children,           \* spawned processes that have not bound their port yet
    runningProcesses,   \* the keys of the HTTP server's Map (no code reads its entries)
    mcpAlive,           \* the tool-call server process is up
    req                 \* client -> its outstanding request and the handler's position

vars == <<configFile, listeners, children, runningProcesses, mcpAlive, req>>

(***************************************************************************)
(* The registry.                                                           *)
(***************************************************************************)
CanRead == configFile.state # "unreadable"
CanWrite == configFile.state = "ok"

\* loadServices of the tool-call server: a failure to read gives [].
loadServices == IF CanRead THEN ParseAll(configFile.services) ELSE <<>>

\* loadServices of the HTTP server: it throws unless CanRead.
loadServicesHttp == ParseAll(configFile.services)

\* A slip: the last descriptor of the port instead of the first.
RECURSIVE findLast(_, _)
findLast(services, port) ==
    IF services = <<>> THEN NoService
    ELSE IF services[Len(services)].port = port THEN services[Len(services)]
    ELSE findLast(SubSeq(services, 1, Len(services) - 1), port)

\* services.find(s => s.port === port)
RECURSIVE find(_, _)
find(services, port) ==
    IF services = <<>> THEN NoService
    ELSE IF Head(services).port = port THEN Head(services)
    ELSE find(Tail(services), port)

IsService(s) == s # NoService

expandPath(p) == IF p # <<>> /\ Head(p) = "~" THEN <<HOME>> \o Tail(p) ELSE p

existsSync(dir) == dir \in ExistingDirs

\* startCmd.split(' '): the words between the spaces.
RECURSIVE split(_, _)
split(str, word) ==
    IF str = <<>> THEN <<word>>
    ELSE IF Head(str) = " " THEN <<word>> \o split(Tail(str), <<>>)
    ELSE split(Tail(str), Append(word, Head(str)))

\* spawn(cmd, args, {shell: true}) runs [cmd, ...args].join(' ') in a shell.
RECURSIVE shellLine(_)
shellLine(words) ==
    IF Len(words) = 0 THEN <<>>
    ELSE IF Len(words) = 1 THEN words[1]
    ELSE words[1] \o <<" ">> \o shellLine(Tail(words))

(***************************************************************************)
(* The port prober.                                                        *)
(***************************************************************************)
lsof(port) == listeners[port]

\* checkPort of the tool-call server, from lsof's output.
checkPort(stdout) ==
    [running |-> stdout # <<>>, pid |-> IF stdout # <<>> THEN Head(stdout) ELSE NoPid]

\* checkPort of the HTTP server: no pid field when nothing is bound.
checkPortHttp(stdout) ==
    IF stdout # <<>> THEN [running |-> TRUE, pid |-> Head(stdout)] ELSE [running |-> FALSE]

(***************************************************************************)
(* The status aggregator.                                                  *)
(***************************************************************************)
NoUrl == [scheme |-> Null]
Url(port) == [scheme |-> "http", host |-> "localhost", port |-> port]

\* One element of getAllServicesStatus.
ServiceView(s, status) ==
    [ name |-> s.name, port |-> s.port, path |-> s.path, type |-> s.type,
      running |-> status.running, pid |-> status.pid, startCmd |-> s.startCmd,
      github |-> IF "github" \in DOMAIN s THEN s.github ELSE Null,
      url |-> IF status.running THEN Url(s.port) ELSE NoUrl ]

\* One element of getAllStatus: {...s, ...status}.
StatusView(s, status) == status @@ s

\* args?.filter || 'all'
FilterOf(args) == IF "filter" \in DOMAIN args /\ args.filter # "" THEN args.filter ELSE "all"

IsRunning(s) == s.running
IsStopped(s) == ~s.running

\* The filter chain of list_services.
FilterRunning(services) == SelectSeq(services, IsRunning)

\* A slip: the test of 'running' copied to 'stopped'.
FilterStoppedAsRunning(services) == SelectSeq(services, IsRunning)
FilterStopped(services) == SelectSeq(services, IsStopped)

\* A slip: the tag compared with the name.
FilterTypeByName(services, filter) == SelectSeq(services, LAMBDA s : s.name = filter)
FilterType(services, filter) == SelectSeq(services, LAMBDA s : s.type = filter)

applyFilter(services, filter) ==
    IF filter = "running" THEN FilterRunning(services)
    ELSE IF filter = "stopped" THEN FilterStopped(services)
    ELSE IF filter \in TypeTags THEN FilterType(services, filter)
    ELSE services

\* getAllServicesStatus when every probe reads the same socket table.
Snapshot(services) ==
    [i \in 1..Len(services) |-> ServiceView(services[i], checkPort(lsof(services[i].port)))]

list_services(args) == applyFilter(Snapshot(loadServices), FilterOf(args))

(***************************************************************************)
(* Requests.                                                               *)
(***************************************************************************)
Idle ==
    [ surface |-> "none", op |-> "none", args |-> NoArgs, port |-> 0, pc |-> "idle",
      service |-> NoService, services |-> <<>>, pending |-> {}, status |-> <<>>,
      events |-> <<>>, spawned |-> <<>>, resp |-> NoResp,
      everFree |-> FALSE, everBound |-> FALSE ]

Call(surface, op, args, port) ==
    [Idle EXCEPT !.surface = surface, !.op = op, !.args = args, !.port = port, !.pc = "start"]

At(r, pc) == [r EXCEPT !.pc = pc]
Event(r, e) == [r EXCEPT !.events = Append(@, e)]
Done(r, resp) == [r EXCEPT !.pc = "done", !.resp = resp, !.events = Append(@, "respond")]

Finished(r) == r.pc \in {"idle", "done", "escaped"}

\* What was true of a request's port while the request was being handled:
\* whether it was ever free, and ever bound.
Track(rq, ls) ==
    [c \in Clients |->
        IF rq[c].pc = "idle" \/ rq[c].port \notin Ports \/ req[c].pc \in {"done", "escaped"}
        THEN rq[c]
        ELSE [rq[c] EXCEPT !.everFree = @ \/ ls[rq[c].port] = <<>>,
                           !.everBound = @ \/ ls[rq[c].port] # <<>>]]

(***************************************************************************)
(* Processes.                                                              *)
(***************************************************************************)
Range(seq) == {seq[i] : i \in 1..Len(seq)}

UsedPids == UNION {Range(listeners[p]) : p \in Ports} \cup {ch.pid : ch \in children}

\* The pid the OS gives the next process.
FreshPid == CHOOSE n \in 1..(MaxProcs + 1) : n \notin UsedPids /\ \A m \in 1..(n - 1) : m \in UsedPids

HasRoom == Cardinality(UsedPids) < MaxProcs

\* spawn(cmd, args, {cwd, shell, detached, env: {PORT}}) by the handler of r:
\* what the request remembers of the call.  A launch that fails has no pid.
SpawnCall(service, port, launched) ==
    [ cmd |-> shellLine(split(service.startCmd, <<>>)), cwd |-> expandPath(service.path),
      PORT |-> ToString(port), pid |-> IF launched THEN FreshPid ELSE NoPid ]

\* The child lives on only while the model has room for it.
Spawned(port, launched) ==
    IF launched /\ HasRoom THEN children \cup {[pid |-> FreshPid, port |-> port]} ELSE children

\* A process that is not one of ours starts listening on port p.
OsListen(p) ==
    /\ HasRoom
    /\ listeners' = [listeners EXCEPT ![p] = Append(@, FreshPid)]
    /\ req' = Track(req, listeners')
    /\ UNCHANGED <<configFile, children, runningProcesses, mcpAlive>>

\* A listening process exits.
OsExit(p, pid) ==
    /\ pid \in Range(listeners[p])
    /\ listeners' = [listeners EXCEPT ![p] = SelectSeq(@, LAMBDA x : x # pid)]
    /\ req' = Track(req, listeners')
    /\ UNCHANGED <<configFile, children, runningProcesses, mcpAlive>>

\* A spawned child binds the port its environment names.
ChildListen(ch) ==
    /\ ch \in children
    /\ children' = children \ {ch}
    /\ listeners' = [listeners EXCEPT ![ch.port] = Append(@, ch.pid)]
    /\ req' = Track(req, listeners')
    /\ UNCHANGED <<configFile, runningProcesses, mcpAlive>>

\* A spawned child exits before it binds.
ChildExit(ch) ==
    /\ ch \in children
    /\ children' = children \ {ch}
    /\ UNCHANGED <<configFile, listeners, runningProcesses, mcpAlive, req>>

\* services.json becomes unreadable, read-only, or is repaired.
ConfigFault(state) ==
    /\ state \in {"ok", "unreadable", "readonly"} \ {configFile.state}
    /\ configFile' = [configFile EXCEPT !.state = state]
    /\ UNCHANGED <<listeners, children, runningProcesses, mcpAlive, req>>

\* The client takes the response and may issue its next request.
Receive(c) ==
    /\ req[c].pc = "done"
    /\ req' = [req EXCEPT ![c] = Idle]
    /\ UNCHANGED <<configFile, listeners, children, runningProcesses, mcpAlive>>

\* The client gives up on a request that will never be answered.
GiveUp(c) ==
    /\ req[c].pc = "escaped"
    /\ req' = [req EXCEPT ![c] = Idle]
    /\ UNCHANGED <<configFile, listeners, children, runningProcesses, mcpAlive>>

\* The tool-call server is started again after it died; its calls are lost.
McpRestart ==
    /\ ~mcpAlive
    /\ mcpAlive' = TRUE
    /\ req' = [c \in Clients |-> IF req[c].surface = "mcp" THEN Idle ELSE req[c]]
    /\ UNCHANGED <<configFile, listeners, children, runningProcesses>>

(***************************************************************************)
(* The tool-call server: the CallToolRequestSchema handler.                *)
(***************************************************************************)
McpReply(content) == [kind |-> "mcp", content |-> content, isError |-> FALSE]
McpError(content) == [kind |-> "mcp", content |-> content, isError |-> TRUE]

\* The catch clause: args is undefined and the handler read args.port.
McpCaught == McpError([t |-> "exception", error |-> "TypeError"])

Failure(error) == [success |-> FALSE, error |-> error]

HasPort(args) == "port" \in DOMAIN args

McpIdle(c) == mcpAlive /\ req[c].pc = "idle"
McpAt(c, op, pc) == mcpAlive /\ req[c].surface = "mcp" /\ req[c].op = op /\ req[c].pc = pc

\* The response of list_services and quick_status once every probe is in.
McpJoined(r) ==
    LET views == [i \in 1..Len(r.services) |-> ServiceView(r.services[i], r.status[i])]
        shown == applyFilter(views, FilterOf(r.args))
    IN  IF r.op = "list_services"
        THEN McpReply([t |-> "list", filter |-> FilterOf(r.args), services |-> shown,
                       total |-> Len(shown)])
        ELSE McpReply([t |-> "quick", running |-> FilterRunning(views),
                       stopped |-> FilterStopped(views), total |-> Len(views)])

\* getAllServicesStatus: load the registry and start one probe per descriptor.
McpFanOut(r) ==
    LET services == loadServices
        r1 == [r EXCEPT !.services = services, !.pending = 1..Len(services),
                        !.status = [i \in 1..Len(services) |-> checkPort(<<>>)]]
    IN  IF services = <<>> THEN Done(r1, McpJoined(r1)) ELSE At(r1, "probes")

McpListServices(c, args) ==
    /\ McpIdle(c)
    /\ req' = [req EXCEPT ![c] = McpFanOut(Call("mcp", "list_services", args, 0))]
    /\ UNCHANGED <<configFile, listeners, children, runningProcesses, mcpAlive>>

McpQuickStatus(c) ==
    /\ McpIdle(c)
    /\ req' = [req EXCEPT ![c] = McpFanOut(Call("mcp", "quick_status", NoArgs, 0))]
    /\ UNCHANGED <<configFile, listeners, children, runningProcesses, mcpAlive>>

\* One probe of the batch completes; the last one releases Promise.all.
McpProbeJoin(c, i) ==
    /\ mcpAlive /\ req[c].surface = "mcp" /\ req[c].pc = "probes"
    /\ i \in req[c].pending
    /\ LET r1 == [req[c] EXCEPT !.pending = @ \ {i},
                                !.status[i] = checkPort(lsof(req[c].services[i].port)),
                                !.events = Append(@, "probe")]
       IN  req' = [req EXCEPT ![c] = IF r1.pending = {} THEN Done(r1, McpJoined(r1)) ELSE r1]
    /\ UNCHANGED <<configFile, listeners, children, runningProcesses, mcpAlive>>

McpCheckPort(c, args) ==
    /\ McpIdle(c)
    /\ req' = Track([req EXCEPT ![c] =
                IF HasPort(args) THEN At(Call("mcp", "check_port", args, args.port), "probe")
                ELSE Done(Call("mcp", "check_port", args, 0), McpCaught)], listeners)
    /\ UNCHANGED <<configFile, listeners, children, runningProcesses, mcpAlive>>

McpCheckPortDone(c) ==
    /\ McpAt(c, "check_port", "probe")
    /\ LET status == checkPort(lsof(req[c].port))
           services == loadServices
           service == find(services, req[c].port)
           r1 == Event([req[c] EXCEPT !.services = services, !.service = service], "probe")
       IN  req' = Track([req EXCEPT ![c] =
                    Done(r1, McpReply([t |-> "port", port |-> req[c].port,
                                       running |-> status.running, pid |-> status.pid,
                                       name |-> service.name]))], listeners)
    /\ UNCHANGED <<configFile, listeners, children, runningProcesses, mcpAlive>>

\* start_service: startService up to its first await.
McpStartService(c, args) ==
    /\ McpIdle(c)
    /\ LET port == IF HasPort(args) THEN args.port ELSE 0
           r0 == Call("mcp", "start_service", args, port)
           services == loadServices
           service == find(services, port)
           r1 == [r0 EXCEPT !.services = services, !.service = service]
           fail(error) == Done(r1, McpReply([t |-> "start", result |-> Failure(error)]))
       IN  req' = Track([req EXCEPT ![c] =
                IF ~HasPort(args) THEN Done(r0, McpCaught)
                ELSE IF ~IsService(service)
                     THEN fail([kind |-> "ServiceNotFound", port |-> port])
                ELSE IF ~existsSync(expandPath(service.path))
                     THEN fail([kind |-> "DirectoryMissing", cwd |-> expandPath(service.path)])
                ELSE At(r1, "probe")], listeners)
    /\ UNCHANGED <<configFile, listeners, children, runningProcesses, mcpAlive>>

\* The probe is in: refuse, or spawn and arm the 2000 ms timer.  A launch
\* that fails emits 'error' on a child nobody listens to, and the process dies.
McpStartProbed(c, launched) ==
    /\ McpAt(c, "start_service", "probe")
    /\ LET r == req[c]
           status == checkPort(lsof(r.port))
           r1 == Event(r, "probe")
           call == SpawnCall(r.service, r.port, launched)
       IN  IF status.running
           THEN /\ launched
                /\ req' = Track([req EXCEPT ![c] =
                        Done(r1, McpReply([t |-> "start", result |->
                            Failure([kind |-> "AlreadyRunning", pid |-> status.pid])]))],
                        listeners)
                /\ UNCHANGED <<children, mcpAlive>>
           ELSE /\ req' = Track([req EXCEPT ![c] =
                        At(Event([r1 EXCEPT !.spawned = Append(@, call)], "spawn"), "settle")],
                        listeners)
                /\ children' = Spawned(r.port, launched)
                /\ mcpAlive' = launched
    /\ UNCHANGED <<configFile, listeners, runningProcesses>>

\* The timer fires and the second probe is started.
McpStartTimer(c) ==
    /\ McpAt(c, "start_service", "settle")
    /\ req' = Track([req EXCEPT ![c] = At(Event(@, "delay"), "reprobe")], listeners)
    /\ UNCHANGED <<configFile, listeners, children, runningProcesses, mcpAlive>>

McpStartReprobed(c) ==
    /\ McpAt(c, "start_service", "reprobe")
    /\ LET r == req[c]
           newStatus == checkPort(lsof(r.port))
           result == [ success |-> TRUE, service |-> r.service.name, port |-> r.port,
                       started |-> newStatus.running,
                       message |-> IF newStatus.running THEN "Started"
                                   ELSE "may still be initializing" ]
       IN  req' = Track([req EXCEPT ![c] =
                    Done(Event([r EXCEPT !.status = <<newStatus>>], "probe"),
                         McpReply([t |-> "start", result |-> result]))],
                    listeners)
    /\ UNCHANGED <<configFile, listeners, children, runningProcesses, mcpAlive>>

\* `lsof -i :port -t | xargs kill -9`: the listeners that outlive it.
Survivors(port, spared) == SelectSeq(listeners[port], LAMBDA pid : pid \in spared)

\* stop_service: stopService up to its first await.
McpStopService(c, args) ==
    /\ McpIdle(c)
    /\ req' = Track([req EXCEPT ![c] =
                IF HasPort(args) THEN At(Call("mcp", "stop_service", args, args.port), "probe")
                ELSE Done(Call("mcp", "stop_service", args, 0), McpCaught)], listeners)
    /\ UNCHANGED <<configFile, listeners, children, runningProcesses, mcpAlive>>

\* The probe is in: refuse, or run the kill pipeline.
McpStopProbed(c) ==
    /\ McpAt(c, "stop_service", "probe")
    /\ LET status == checkPort(lsof(req[c].port))
           r1 == Event(req[c], "probe")
       IN  req' = Track([req EXCEPT ![c] =
                    IF ~status.running
                    THEN Done(r1, McpReply([t |-> "stop", result |->
                            Failure([kind |-> "NothingRunning", port |-> req[c].port])]))
                    ELSE At(Event(r1, "kill"), "kill")], listeners)
    /\ UNCHANGED <<configFile, listeners, children, runningProcesses, mcpAlive>>

\* A change of behaviour: success only when the pipeline freed the port.
McpStopKilledChecked(c, spared) ==
    /\ McpAt(c, "stop_service", "kill")
    /\ spared \subseteq Range(listeners[req[c].port])
    /\ listeners' = [listeners EXCEPT ![req[c].port] = Survivors(req[c].port, spared)]
    /\ req' = Track([req EXCEPT ![c] =
                Done(@, McpReply([t |-> "stop", result |->
                    IF spared = {}
                    THEN [success |-> TRUE, message |-> "Stopped", port |-> req[c].port]
                    ELSE Failure([kind |-> "StillRunning", port |-> req[c].port])]))],
                listeners')
    /\ UNCHANGED <<configFile, children, runningProcesses, mcpAlive>>

\* The pipeline has ended, whatever it did: success.
McpStopKilled(c, spared) ==
    /\ McpAt(c, "stop_service", "kill")
    /\ spared \subseteq Range(listeners[req[c].port])
    /\ listeners' = [listeners EXCEPT ![req[c].port] = Survivors(req[c].port, spared)]
    /\ req' = Track([req EXCEPT ![c] =
                Done(@, McpReply([t |-> "stop", result |->
                    [success |-> TRUE, message |-> "Stopped", port |-> req[c].port]]))],
                listeners')
    /\ UNCHANGED <<configFile, children, runningProcesses, mcpAlive>>

McpGetServiceInfo(c, args) ==
    /\ McpIdle(c)
    /\ LET port == IF HasPort(args) THEN args.port ELSE 0
           r0 == Call("mcp", "get_service_info", args, port)
           services == loadServices
           service == find(services, port)
           r1 == [r0 EXCEPT !.services = services, !.service = service]
       IN  req' = Track([req EXCEPT ![c] =
                IF ~HasPort(args) THEN Done(r0, McpCaught)
                ELSE IF ~IsService(service)
                     THEN Done(r1, McpReply([t |-> "info", result |->
                            Failure([kind |-> "ServiceNotFound", port |-> port])]))
                ELSE At(r1, "probe")], listeners)
    /\ UNCHANGED <<configFile, listeners, children, runningProcesses, mcpAlive>>

McpInfoProbed(c) ==
    /\ McpAt(c, "get_service_info", "probe")
    /\ LET status == checkPort(lsof(req[c].port))
           s == req[c].service
       IN  req' = Track([req EXCEPT ![c] =
                Done(Event(@, "probe"), McpReply([t |-> "info", result |->
                    [ success |-> TRUE, service |-> s, running |-> status.running,
                      github |-> IF "github" \in DOMAIN s THEN s.github ELSE "N/A",
                      url |-> IF status.running THEN Url(s.port) ELSE NoUrl ]]))],
                listeners)
    /\ UNCHANGED <<configFile, listeners, children, runningProcesses, mcpAlive>>

\* The default case of the switch.
McpUnknownTool(c) ==
    /\ McpIdle(c)
    /\ req' = [req EXCEPT ![c] =
                Done(Call("mcp", "unknown", NoArgs, 0), McpError([t |-> "unknown tool"]))]
    /\ UNCHANGED <<configFile, listeners, children, runningProcesses, mcpAlive>>

(***************************************************************************)
(* The HTTP server: the request handler.                                   *)
(***************************************************************************)
HttpIdle(c) == req[c].pc = "idle"
HttpAt(c, op, pc) == req[c].surface = "http" /\ req[c].op = op /\ req[c].pc = pc

Http(code, body) == [kind |-> "http", code |-> code, body |-> body]
HttpFail(message) == Http(500, [error |-> message])
HttpNoService == Http(404, [error |-> "Service not found"])

\* An exception leaves the async handler: the request is never answered.
Escaped(r) == [r EXCEPT !.pc = "escaped"]

HttpOptions(c) ==
    /\ HttpIdle(c)
    /\ req' = [req EXCEPT ![c] = Done(Call("http", "OPTIONS", NoArgs, 0), Http(204, [empty |-> TRUE]))]
    /\ UNCHANGED <<configFile, listeners, children, runningProcesses, mcpAlive>>

\* GET /: index.html is read outside any try.
HttpIndex(c, readable) ==
    /\ HttpIdle(c)
    /\ req' = [req EXCEPT ![c] =
                IF readable THEN Done(Call("http", "GET /", NoArgs, 0), Http(200, [html |-> TRUE]))
                ELSE Escaped(Call("http", "GET /", NoArgs, 0))]
    /\ UNCHANGED <<configFile, listeners, children, runningProcesses, mcpAlive>>

\* No route matches.
HttpNotFound(c) ==
    /\ HttpIdle(c)
    /\ req' = [req EXCEPT ![c] = Done(Call("http", "other", NoArgs, 0), Http(404, [text |-> "Not found"]))]
    /\ UNCHANGED <<configFile, listeners, children, runningProcesses, mcpAlive>>

\* The response of GET /api/services once every probe is in.
HttpJoined(r) ==
    Http(200, [i \in 1..Len(r.services) |-> StatusView(r.services[i], r.status[i])])

\* GET /api/services: getAllStatus inside try.
HttpGetServices(c) ==
    /\ HttpIdle(c)
    /\ LET r0 == Call("http", "GET /api/services", NoArgs, 0)
           services == loadServicesHttp
           r1 == [r0 EXCEPT !.services = services, !.pending = 1..Len(services),
                            !.status = [i \in 1..Len(services) |-> checkPortHttp(<<>>)]]
       IN  req' = [req EXCEPT ![c] =
                IF ~CanRead THEN Done(r0, HttpFail("ENOENT"))
                ELSE IF services = <<>> THEN Done(r1, HttpJoined(r1))
                ELSE At(r1, "probes")]
    /\ UNCHANGED <<configFile, listeners, children, runningProcesses, mcpAlive>>

HttpProbeJoin(c, i) ==
    /\ req[c].surface = "http" /\ req[c].pc = "probes"
    /\ i \in req[c].pending
    /\ LET r1 == [req[c] EXCEPT !.pending = @ \ {i},
                                !.status[i] = checkPortHttp(lsof(req[c].services[i].port)),
                                !.events = Append(@, "probe")]
       IN  req' = [req EXCEPT ![c] = IF r1.pending = {} THEN Done(r1, HttpJoined(r1)) ELSE r1]
    /\ UNCHANGED <<configFile, listeners, children, runningProcesses, mcpAlive>>

\* GET /api/status/{port}
HttpGetStatus(c, port) ==
    /\ HttpIdle(c)
    /\ req' = Track([req EXCEPT ![c] = At(Call("http", "GET /api/status", NoArgs, port), "probe")],
                    listeners)
    /\ UNCHANGED <<configFile, listeners, children, runningProcesses, mcpAlive>>

HttpStatusDone(c) ==
    /\ HttpAt(c, "GET /api/status", "probe")
    /\ req' = Track([req EXCEPT ![c] =
                Done(Event(@, "probe"), Http(200, checkPortHttp(lsof(req[c].port))))], listeners)
    /\ UNCHANGED <<configFile, listeners, children, runningProcesses, mcpAlive>>

\* POST /api/start/{port}: the lookup, then startService(service) up to the timer.
\* A launch that fails emits 'error', which rejects the promise.
HttpStart(c, port, launched) ==
    /\ HttpIdle(c)
    /\ LET r0 == Call("http", "POST /api/start", NoArgs, port)
           services == loadServicesHttp
           service == find(services, port)
           r1 == [r0 EXCEPT !.services = services, !.service = service]
           call == SpawnCall(service, service.port, launched)
           r2 == Event([r1 EXCEPT !.spawned = Append(@, call)], "spawn")
           spawns == CanRead /\ IsService(service) /\ existsSync(expandPath(service.path))
       IN  /\ req' = Track([req EXCEPT ![c] =
                    IF ~CanRead THEN Escaped(r0)
                    ELSE IF ~IsService(service) THEN Done(r1, HttpNoService)
                    ELSE IF ~existsSync(expandPath(service.path))
                         THEN Done(r1, HttpFail("Directory not found"))
                    ELSE IF ~launched THEN Done(r2, HttpFail("spawn"))
                    ELSE At(r2, "settle")], listeners)
           /\ spawns \/ launched
           /\ children' = IF spawns THEN Spawned(service.port, launched) ELSE children
           /\ runningProcesses' =
                IF spawns THEN runningProcesses \cup {service.port} ELSE runningProcesses
    /\ UNCHANGED <<configFile, listeners, mcpAlive>>

\* The 1000 ms timer fires: success, with the child's pid.
HttpStartTimer(c) ==
    /\ HttpAt(c, "POST /api/start", "settle")
    /\ req' = Track([req EXCEPT ![c] =
                Done(Event(@, "delay"),
                     Http(200, [success |-> TRUE, pid |-> req[c].spawned[1].pid]))], listeners)
    /\ UNCHANGED <<configFile, listeners, children, runningProcesses, mcpAlive>>

\* POST /api/stop/{port}: stopService runs the kill pipeline at once.
HttpStop(c, port) ==
    /\ HttpIdle(c)
    /\ req' = Track([req EXCEPT ![c] =
                At(Event(Call("http", "POST /api/stop", NoArgs, port), "kill"), "kill")], listeners)
    /\ UNCHANGED <<configFile, listeners, children, runningProcesses, mcpAlive>>

HttpStopKilled(c, spared) ==
    /\ HttpAt(c, "POST /api/stop", "kill")
    /\ spared \subseteq Range(listeners[req[c].port])
    /\ listeners' = [listeners EXCEPT ![req[c].port] = Survivors(req[c].port, spared)]
    /\ runningProcesses' = runningProcesses \ {req[c].port}
    /\ req' = Track([req EXCEPT ![c] = Done(@, Http(200, [success |-> TRUE]))], listeners')
    /\ UNCHANGED <<configFile, children, mcpAlive>>

\* The add requests whose body is still arriving.
Arriving == {c \in Clients : req[c].pc = "body"}

\* POST /api/services: the handler registers its listeners and returns.
HttpAddService(c, body) ==
    /\ HttpIdle(c)
    /\ Len(configFile.services) + Cardinality(Arriving) < MaxServices
    /\ req' = [req EXCEPT ![c] = At(Call("http", "POST /api/services", [body |-> body], 0), "body")]
    /\ UNCHANGED <<configFile, listeners, children, runningProcesses, mcpAlive>>

\* A slip: unshift for push.
unshiftService(services, newService) == <<newService>> \o services

\* config.services.push(newService), and the document as it is written back.
pushService(services, newService) == Append(services, newService)
writeConfig(services) == [state |-> configFile.state, services |-> StringifyAll(services)]

\* The 'end' event: parse, read, push, write, all in one try.
HttpAddEnd(c) ==
    /\ HttpAt(c, "POST /api/services", "body")
    /\ LET body == req[c].args.body
           ok == IsJSON(body) /\ CanRead /\ CanWrite
       IN  /\ req' = [req EXCEPT ![c] =
                    IF ~IsJSON(body) THEN Done(@, HttpFail("Unexpected token"))
                    ELSE IF ~CanRead THEN Done(@, HttpFail("ENOENT"))
                    ELSE IF ~CanWrite THEN Done(@, HttpFail("EACCES"))
                    ELSE Done(@, Http(200, [success |-> TRUE]))]
           /\ configFile' =
                IF ok THEN writeConfig(pushService(ParseAll(configFile.services), JSONparse(body)))
                ELSE configFile
    /\ UNCHANGED <<listeners, children, runningProcesses, mcpAlive>>

\* config.services.filter(s => s.port !== port)
removeService(services, port) == SelectSeq(services, LAMBDA s : s.port # port)

\* A change of behaviour: the write is made from a read that came before
\* the last descriptor was appended.
HttpRemoveServiceStale(c, port) ==
    /\ HttpIdle(c)
    /\ LET r0 == Call("http", "DELETE /api/services", NoArgs, port)
           ok == CanRead /\ CanWrite
           stale == SubSeq(configFile.services, 1, Len(configFile.services) - 1)
       IN  /\ req' = [req EXCEPT ![c] =
                    IF ok THEN Done(r0, Http(200, [success |-> TRUE])) ELSE Escaped(r0)]
           /\ configFile' =
                IF ok THEN writeConfig(removeService(ParseAll(stale), port))
                ELSE configFile
    /\ UNCHANGED <<listeners, children, runningProcesses, mcpAlive>>

\* DELETE /api/services/{port}: read, filter, write, with no try around them.
HttpRemoveService(c, port) ==
    /\ HttpIdle(c)
    /\ LET r0 == Call("http", "DELETE /api/services", NoArgs, port)
           ok == CanRead /\ CanWrite
       IN  /\ req' = [req EXCEPT ![c] =
                    IF ok THEN Done(r0, Http(200, [success |-> TRUE])) ELSE Escaped(r0)]
           /\ configFile' =
                IF ok THEN writeConfig(removeService(ParseAll(configFile.services), port))
                ELSE configFile
    /\ UNCHANGED <<listeners, children, runningProcesses, mcpAlive>>

\* POST /api/code/{port} and POST /api/finder/{port}: the lookup, then exec.
HttpOpen(c, tool, port) ==
    /\ HttpIdle(c)
    /\ LET r0 == Call("http", tool, NoArgs, port)
           services == loadServicesHttp
           service == find(services, port)
           r1 == [r0 EXCEPT !.services = services, !.service = service]
       IN  req' = [req EXCEPT ![c] =
                IF ~CanRead THEN Escaped(r0)
                ELSE IF ~IsService(service) THEN Done(r1, HttpNoService)
                ELSE At(r1, "exec")]
    /\ UNCHANGED <<configFile, listeners, children, runningProcesses, mcpAlive>>

HttpOpenDone(c, err) ==
    /\ req[c].surface = "http" /\ req[c].pc = "exec"
    /\ req' = [req EXCEPT ![c] = Done(@, Http(200, [success |-> ~err]))]
    /\ UNCHANGED <<configFile, listeners, children, runningProcesses, mcpAlive>>

(***************************************************************************)
(* Specifications.                                                         *)
(***************************************************************************)
PortArgs == {NoArgs} \cup {[port |-> p] : p \in Ports}
FilterArgs == {NoArgs} \cup {[filter |-> f] : f \in Filters}

Init ==
    /\ configFile \in {[state |-> "ok", services |-> cfg] : cfg \in InitConfigs}
    /\ listeners = [p \in Ports |-> <<>>]
    /\ children = {}
    /\ runningProcesses = {}
    /\ mcpAlive = TRUE
    /\ req = [c \in Clients |-> Idle]

\* What happens around the two servers.
Sockets ==
    \/ \E p \in Ports : OsListen(p)
    \/ \E p \in Ports, pid \in 1..(MaxProcs + 1) : OsExit(p, pid)

Processes ==
    \/ Sockets
    \/ \E ch \in children : ChildListen(ch)
    \/ \E ch \in children : ChildExit(ch)

Files == \E state \in {"ok", "unreadable", "readonly"} : ConfigFault(state)

Lifecycle(c) ==
    \/ \E args \in PortArgs : McpStartService(c, args)
    \/ \E launched \in BOOLEAN : McpStartProbed(c, launched)
    \/ McpStartTimer(c)
    \/ McpStartReprobed(c)
    \/ \E args \in PortArgs : McpStopService(c, args)
    \/ McpStopProbed(c)
    \/ \E spared \in SUBSET (1..(MaxProcs + 1)) : McpStopKilled(c, spared)
    \/ \E port \in Ports, launched \in BOOLEAN : HttpStart(c, port, launched)
    \/ HttpStartTimer(c)
    \/ \E port \in Ports : HttpStop(c, port)
    \/ \E spared \in SUBSET (1..(MaxProcs + 1)) : HttpStopKilled(c, spared)

Status(c) ==
    \/ \E args \in FilterArgs : McpListServices(c, args)
    \/ McpQuickStatus(c)
    \/ \E i \in 1..MaxServices : McpProbeJoin(c, i)
    \/ \E args \in PortArgs : McpCheckPort(c, args)
    \/ McpCheckPortDone(c)
    \/ \E args \in PortArgs : McpGetServiceInfo(c, args)
    \/ McpInfoProbed(c)
    \/ McpUnknownTool(c)
    \/ HttpGetServices(c)
    \/ \E i \in 1..MaxServices : HttpProbeJoin(c, i)
    \/ \E port \in Ports : HttpGetStatus(c, port)
    \/ HttpStatusDone(c)
    \/ \E tool \in {"POST /api/code", "POST /api/finder"}, port \in Ports : HttpOpen(c, tool, port)
    \/ \E err \in BOOLEAN : HttpOpenDone(c, err)
    \/ HttpOptions(c)
    \/ \E readable \in BOOLEAN : HttpIndex(c, readable)
    \/ HttpNotFound(c)

Registry(c) ==
    \/ \E body \in Bodies \cup {Malformed} : HttpAddService(c, body)
    \/ HttpAddEnd(c)
    \/ \E port \in Ports : HttpRemoveService(c, port)

Client(c) ==
    \/ Receive(c)
    \/ GiveUp(c)

\* The whole system: one client, which waits for each response before its
\* next request.
Next ==
    \/ Processes
    \/ Files
    \/ McpRestart
    \/ Lifecycle(1)
    \/ Status(1)
    \/ Registry(1)
    \/ Client(1)

Spec == Init /\ [][Next]_vars

\* The system when the client only starts and stops services.
NextLifecycle ==
    \/ Processes
    \/ Files
    \/ McpRestart
    \/ Lifecycle(1)
    \/ Client(1)

SpecLifecycle == Init /\ [][NextLifecycle]_vars

\* The system when the client only asks for status and information.
NextStatus ==
    \/ Sockets
    \/ Files
    \/ Status(1)
    \/ Client(1)

SpecStatus == Init /\ [][NextStatus]_vars

\* The system when the client only calls list_services and quick_status.
\* Only the ports that a descriptor of the model names are probed, and the
\* registry is only read.
ListedPorts == {3000, 4000}

NextListing ==
    \/ \E p \in ListedPorts : OsListen(p)
    \/ \E p \in ListedPorts, pid \in 1..(MaxProcs + 1) : OsExit(p, pid)
    \/ \E state \in {"ok", "unreadable"} : ConfigFault(state)
    \/ \E args \in FilterArgs : McpListServices(1, args)
    \/ McpQuickStatus(1)
    \/ \E i \in 1..MaxServices : McpProbeJoin(1, i)
    \/ Receive(1)

SpecListing == Init /\ [][NextListing]_vars

\* The system when the client only edits the registry.
NextRegistry ==
    \/ Files
    \/ Registry(1)
    \/ Client(1)

SpecRegistry == Init /\ [][NextRegistry]_vars

\* The system when the client only asks for what looks a service up by port.
NextLookup ==
    \/ Files
    \/ \E args \in PortArgs : McpStartService(1, args)
    \/ \E launched \in BOOLEAN : McpStartProbed(1, launched)
    \/ McpStartTimer(1)
    \/ McpStartReprobed(1)
    \/ McpRestart
    \/ \E port \in Ports, launched \in BOOLEAN : HttpStart(1, port, launched)
    \/ HttpStartTimer(1)
    \/ \E args \in PortArgs : McpCheckPort(1, args)
    \/ McpCheckPortDone(1)
    \/ \E args \in PortArgs : McpGetServiceInfo(1, args)
    \/ McpInfoProbed(1)
    \/ \E tool \in {"POST /api/code", "POST /api/finder"}, port \in Ports : HttpOpen(1, tool, port)
    \/ \E err \in BOOLEAN : HttpOpenDone(1, err)
    \/ Client(1)

SpecLookup == Init /\ [][NextLookup]_vars

\* The system when every client only starts services: the requests of the
\* clients interleave at each await and timer.
StartRace(c) ==
    \/ \E args \in PortArgs : McpStartService(c, args)
    \/ \E launched \in BOOLEAN : McpStartProbed(c, launched)
    \/ McpStartTimer(c)
    \/ McpStartReprobed(c)
    \/ \E port \in Ports, launched \in BOOLEAN : HttpStart(c, port, launched)
    \/ HttpStartTimer(c)
    \/ Receive(c)

NextRace ==
    \/ \E ch \in children : ChildListen(ch)
    \/ \E ch \in children : ChildExit(ch)
    \/ McpRestart
    \/ \E c \in Clients : StartRace(c)

SpecRace == Init /\ [][NextRace]_vars

\* The system when every client only edits the registry: the 'end' event of
\* an add may come after other requests were handled.
NextEdits ==
    \/ \E state \in {"ok", "readonly"} : ConfigFault(state)
    \/ \E c \in Clients, body \in {WebText, NewBody} : HttpAddService(c, body)
    \/ \E c \in Clients : HttpAddEnd(c)
    \/ \E c \in Clients, port \in ListedPorts : HttpRemoveService(c, port)
    \/ \E c \in Clients : Client(c)

SpecEdits == Init /\ [][NextEdits]_vars

(***************************************************************************)
(* Claims.                                                                 *)
(***************************************************************************)
StartOps == {"start_service", "POST /api/start"}
StopOps == {"stop_service", "POST /api/stop"}

IsDone(r) == r.pc = "done"

\* The request found its descriptor, and the descriptor's directory exists.
Startable(r) == IsService(r.service) /\ existsSync(expandPath(r.service.path))

\* The tool-call result, when the response carries one.
HasResult(r) == r.resp.kind = "mcp" /\ "result" \in DOMAIN r.resp.content
FailedWith(r, kind) ==
    /\ HasResult(r)
    /\ ~r.resp.content.result.success
    /\ r.resp.content.result.error.kind = kind

RefusedAlreadyRunning(r) ==
    \/ FailedWith(r, "AlreadyRunning") /\ r.resp.content.result.error.pid # NoPid
    \/ r.resp.kind = "http" /\ r.resp.code # 200

RefusedNothingRunning(r) ==
    \/ FailedWith(r, "NothingRunning")
    \/ r.resp.kind = "http" /\ r.resp.code # 200

StartOnBoundPortIsRefused(r) ==
    (r.op \in StartOps /\ r.pc # "idle" /\ Startable(r) /\ ~r.everFree)
        => (r.spawned = <<>> /\ (IsDone(r) => RefusedAlreadyRunning(r)))

\* C1: a start request handled while its port is bound all along spawns
\* nothing and ends refused as AlreadyRunning, with the owner's pid, on the
\* tool-call surface and on the HTTP surface alike.
C1_StartOnBoundPortIsRefused == \A c \in Clients : StartOnBoundPortIsRefused(req[c])

StopOnFreePortIsRefused(r) ==
    (r.op \in StopOps /\ r.pc # "idle" /\ r.port \in Ports /\ ~r.everBound)
        => ("kill" \notin Range(r.events) /\ (IsDone(r) => RefusedNothingRunning(r)))

\* C2: a stop request handled while its port is free all along runs no kill
\* command and ends refused as NothingRunning, on either surface.
C2_StopOnFreePortIsRefused == \A c \in Clients : StopOnFreePortIsRefused(req[c])

BagOfSeq(seq) == [x \in Range(seq) |-> Cardinality({i \in 1..Len(seq) : seq[i] = x})]

ListAll == list_services([filter |-> "all"])
ListRunning == list_services([filter |-> "running"])
ListStopped == list_services([filter |-> "stopped"])

IsListed(r, filter) ==
    r.op = "list_services" /\ IsDone(r) /\ FilterOf(r.args) = filter

\* C3: over one registry and one socket table, every service that
\* list_services returns for 'all' is returned for exactly one of 'running'
\* and 'stopped', as often as for 'all', and they return nothing else.
C3_RunningAndStoppedPartitionAll ==
    /\ BagOfSeq(ListRunning) (+) BagOfSeq(ListStopped) = BagOfSeq(ListAll)
    /\ Range(ListRunning) \cap Range(ListStopped) = {}

\* A list_services call for 'running' has answered with services, and the
\* registry holds running and stopped services.
C3_Witness ==
    /\ ListRunning # <<>>
    /\ ListStopped # <<>>
    /\ \E c \in Clients : IsListed(req[c], "running") /\ req[c].resp.content.services # <<>>

OtherFilters == Filters \ {"all", "running", "stopped", ""}
OfType(services, type) == SelectSeq(services, LAMBDA s : s.type = type)

\* What the probes of a list_services call found, joined to its descriptors.
ViewsOf(r) == [i \in 1..Len(r.services) |-> ServiceView(r.services[i], r.status[i])]
TypesOf(services) == {services[i].type : i \in 1..Len(services)}
Listed(r) == r.resp.content.services

\* C4, as claimed: a list_services call whose filter is the type of a
\* configured descriptor returns exactly the descriptors of that type, and
\* one whose filter is no recognised tag returns what 'all' returns.
C4_TypeOfADescriptorFilters ==
    \A c \in Clients, f \in OtherFilters :
        IsListed(req[c], f) =>
            IF f \in TypesOf(req[c].services)
            THEN Listed(req[c]) = OfType(ViewsOf(req[c]), f)
            ELSE f \notin {"frontend", "backend", "api"} => Listed(req[c]) = ViewsOf(req[c])

\* C4, amended: the filters frontend, backend and api return exactly the
\* descriptors of that type; every other filter, the type of a configured
\* descriptor included, returns what 'all' returns.
C4_OnlyTheThreeTagsFilter ==
    /\ \A f \in OtherFilters :
        IF f \in {"frontend", "backend", "api"}
        THEN list_services([filter |-> f]) = OfType(ListAll, f)
        ELSE list_services([filter |-> f]) = ListAll
    /\ \A c \in Clients, f \in OtherFilters :
        IsListed(req[c], f) =>
            IF f \in {"frontend", "backend", "api"}
            THEN Listed(req[c]) = OfType(ViewsOf(req[c]), f)
            ELSE Listed(req[c]) = ViewsOf(req[c])

\* A list_services call for 'database', the type of a configured descriptor,
\* has answered with every service of the registry, and one for 'frontend'
\* would leave some out.
C4_Witness ==
    \E c \in Clients :
        /\ IsListed(req[c], "database")
        /\ \E i \in 1..Len(req[c].services) : req[c].services[i].type = "database"
        /\ \E s \in Range(req[c].resp.content.services) : s.type # "database"
        /\ Len(req[c].resp.content.services) = Len(req[c].services)
        /\ list_services([filter |-> "frontend"]) # <<>>
        /\ list_services([filter |-> "frontend"]) # ListAll

\* The events of a request after the first event e.
EventsAfter(events, e) ==
    LET at == {i \in 1..Len(events) : events[i] = e}
    IN  IF at = {} THEN <<>>
        ELSE SubSeq(events, (CHOOSE i \in at : \A j \in at : i <= j) + 1, Len(events))

Count(events, e) == Cardinality({i \in 1..Len(events) : events[i] = e})

Launched(r) == r.spawned # <<>> /\ r.spawned[1].pid # NoPid

\* The start result says whether the probe after the delay found the port
\* bound, with the caveat when it did not.
ReportsStarted(r) ==
    \/ /\ HasResult(r)
       /\ r.resp.content.result.success
       /\ r.status # <<>>
       /\ r.resp.content.result.started = r.status[1].running
       /\ ~r.status[1].running => r.resp.content.result.message = "may still be initializing"
    \/ /\ r.resp.kind = "http"
       /\ r.resp.code = 200
       /\ "started" \in DOMAIN r.resp.body

StartSpawnsWaitsReprobes(r) ==
    (r.op \in StartOps /\ IsDone(r) /\ Startable(r) /\ Launched(r))
        => /\ Len(r.spawned) = 1
           /\ r.spawned[1].PORT = ToString(r.port)
           /\ r.spawned[1].cwd = expandPath(r.service.path)
           /\ EventsAfter(r.events, "spawn") = <<"delay", "probe", "respond">>
           /\ ReportsStarted(r)

\* C5: a start request that launched its command has spawned it once, with
\* PORT set to the port, then waited, then probed the port again, and only
\* then answered, saying started exactly when that probe found the port
\* bound.
C5_StartSpawnsWaitsReprobes == \A c \in Clients : StartSpawnsWaitsReprobes(req[c])

\* The value a JSON literal denotes.
Denotes(lit) == IF "n" \in DOMAIN lit THEN lit.n ELSE lit.s

\* The members of a text that no later member of the same key overrides.
Effective(text) == {i \in 1..Len(text) : \A j \in (i + 1)..Len(text) : text[j].k # text[i].k}

IsAdded(c) ==
    /\ HttpAt(c, "POST /api/services", "body")
    /\ req'[c].pc = "done"
    /\ req'[c].resp.code = 200

\* C6: when an add-service request succeeds on a registry that loads as L,
\* the registry then loads as L followed by one more descriptor, which has
\* the keys of the body and for each key the value the body gives it.
C6_AddedDescriptorLoadsBack ==
    [][\A c \in Clients :
        IsAdded(c) =>
            LET before == ParseAll(configFile.services)
                after == ParseAll(configFile'.services)
                body == req[c].args.body
            IN  /\ Len(after) = Len(before) + 1
                /\ \A i \in 1..Len(before) : after[i] = before[i]
                /\ DOMAIN after[Len(after)] = {body[i].k : i \in 1..Len(body)}
                /\ \A i \in Effective(body) :
                        after[Len(after)][body[i].k] = Denotes(body[i].lit)]_vars

\* An add-service request with the body NewBody has succeeded on a registry
\* that was not empty, and the registry's last descriptor is that of NewBody.
C6_Witness ==
    \E c \in Clients :
        /\ req[c].op = "POST /api/services" /\ IsDone(req[c])
        /\ req[c].resp.code = 200
        /\ req[c].args.body = NewBody
        /\ Len(loadServicesHttp) >= 2
        /\ loadServicesHttp[Len(loadServicesHttp)].name = "jobs"
        /\ loadServicesHttp[Len(loadServicesHttp)].port = 4000

LookupOps ==
    { "start_service", "check_port", "get_service_info",
      "POST /api/start", "POST /api/code", "POST /api/finder" }

\* The handler of r has looked its port up.
LookedUp(r) ==
    /\ r.op \in LookupOps
    /\ r.port \in Ports
    /\ IF r.op = "check_port" THEN IsDone(r) ELSE r.pc \notin {"idle", "escaped"}

Hits(services, port) == {i \in 1..Len(services) : services[i].port = port}

FirstWithPort(services, port) ==
    IF Hits(services, port) = {} THEN NoService
    ELSE services[CHOOSE i \in Hits(services, port) : \A j \in Hits(services, port) : i <= j]

\* C7: a lookup by port gives the first descriptor of that port in load
\* order, also when several descriptors share the port, and gives none
\* when no descriptor has the port.
C7_LookupGivesFirstInLoadOrder ==
    /\ \A port \in Ports : find(loadServices, port) = FirstWithPort(loadServices, port)
    /\ \A c \in Clients :
        LookedUp(req[c]) => req[c].service = FirstWithPort(req[c].services, req[c].port)

\* A lookup has found the first of two descriptors that share its port.
C7_Witness ==
    \E c \in Clients :
        /\ LookedUp(req[c]) /\ IsDone(req[c])
        /\ Cardinality(Hits(req[c].services, req[c].port)) >= 2
        /\ \E i \in Hits(req[c].services, req[c].port) : req[c].services[i] # req[c].service
        /\ IsService(req[c].service)

\* The operation behind a tool-call response failed.
OperationFailed(r) ==
    /\ r.resp.kind = "mcp"
    /\ \/ r.resp.content.t \in {"exception", "unknown tool"}
       \/ HasResult(r) /\ ~r.resp.content.result.success

\* C8: every tool call whose operation fails is answered with the error
\* flag set, and no tool call ends with the server failing under it.
C8_ToolFailuresCarryTheErrorFlag ==
    \A c \in Clients :
        /\ (IsDone(req[c]) /\ OperationFailed(req[c])) => req[c].resp.isError
        /\ (req[c].surface = "mcp" /\ req[c].pc # "idle") => mcpAlive

ApiRequest(r) == r.surface = "http" /\ r.op \notin {"OPTIONS", "GET /", "other"}

\* C9: no HTTP API request is left unanswered by an exception that escapes
\* its handler; each is answered 200, 404 when the port names no configured
\* service, or 500 with an error body.
C9_EveryApiRequestIsAnswered ==
    \A c \in Clients :
        ApiRequest(req[c]) =>
            /\ req[c].pc # "escaped"
            /\ IsDone(req[c]) =>
                /\ req[c].resp.code \in {200, 404, 500}
                /\ req[c].resp.code = 500 => "error" \in DOMAIN req[c].resp.body
                /\ req[c].resp.code = 404 => ~IsService(req[c].service)

StopSucceeded(r) ==
    \/ HasResult(r) /\ r.resp.content.result.success
    \/ r.resp.kind = "http" /\ r.resp.code = 200 /\ r.resp.body.success

StopSucceedsOnceKillIsIssued(r) ==
    r.op \in StopOps =>
        /\ Count(r.events, "kill") <= 1
        /\ (IsDone(r) /\ Count(r.events, "kill") = 1)
                => (StopSucceeded(r) /\ EventsAfter(r.events, "kill") = <<"respond">>)
        /\ (IsDone(r) /\ StopSucceeded(r)) => Count(r.events, "kill") = 1
        /\ (IsDone(r) /\ r.port \in Ports /\ ~r.everFree)
                => (Count(r.events, "kill") = 1 /\ StopSucceeded(r))

\* C10: a stop request runs the kill command at most once; one that found
\* its port bound runs it, and once it has run the request answers success
\* with no further probe, also when the port has stayed bound all along.
C10_StopSucceedsOnceKillIsIssued == \A c \in Clients : StopSucceedsOnceKillIsIssued(req[c])

\* A tool-call stop has answered success for a port that was bound from
\* the request to the answer.
C10_Witness ==
    \E c \in Clients :
        /\ req[c].op = "stop_service" /\ IsDone(req[c])
        /\ StopSucceeded(req[c])
        /\ ~req[c].everFree
        /\ listeners[req[c].port] # <<>>

\* Two requests to start the same configured port are in flight together,
\* and the port has been unbound for as long as either of them has been.
RaceToStart(r1, r2) ==
    /\ r1.op \in StartOps /\ r2.op \in StartOps
    /\ r1.pc # "idle" /\ r2.pc # "idle"
    /\ r1.port = r2.port
    /\ Startable(r1) /\ Startable(r2)
    /\ ~r1.everBound /\ ~r2.everBound

\* C11: of two concurrent start requests for the same configured port that
\* was unbound, at most one spawns a process.
C11_ConcurrentStartsSpawnOnce ==
    \A c1, c2 \in Clients :
        (c1 # c2 /\ RaceToStart(req[c1], req[c2]))
            => ~(Launched(req[c1]) /\ Launched(req[c2]))

IsRemoved(c) ==
    /\ HttpIdle(c)
    /\ req'[c].op = "DELETE /api/services"
    /\ req'[c].pc = "done"
    /\ req'[c].resp.code = 200

WithoutPort(services, port) == SelectSeq(services, LAMBDA s : s.port # port)

\* C12: with add-service and remove-service requests of several clients
\* interleaved, every add that succeeds appends its descriptor to the
\* registry as it is at that moment, every remove that succeeds takes the
\* descriptors of its port out of the registry as it is at that moment, and
\* no other step changes the registry: no write is made from an earlier
\* read, so no update is lost.
C12_NoUpdateIsLost ==
    [][LET before == ParseAll(configFile.services)
           after == ParseAll(configFile'.services)
       IN  /\ \A c \in Clients :
                IsAdded(c) => after = Append(before, JSONparse(req[c].args.body))
           /\ \A c \in Clients :
                IsRemoved(c) => after = WithoutPort(before, req'[c].port)
           /\ (\A c \in Clients : ~IsAdded(c) /\ ~IsRemoved(c)) => after = before]_vars

\* An add and a remove of two clients have both succeeded, and the registry
\* ends with the added descriptor after the descriptors it kept, with none
\* of the removed port.
C12_Witness ==
    \E c1, c2 \in Clients :
        /\ c1 # c2
        /\ req[c1].op = "POST /api/services" /\ IsDone(req[c1]) /\ req[c1].resp.code = 200
        /\ req[c2].op = "DELETE /api/services" /\ IsDone(req[c2]) /\ req[c2].resp.code = 200
        /\ Len(loadServicesHttp) >= 2
        /\ loadServicesHttp[Len(loadServicesHttp)] = JSONparse(req[c1].args.body)
        /\ Hits(loadServicesHttp, req[c2].port) = {}

=============================================================================
